---- MODULE Spec2Model ----
(***************************************************************************)
(* Model of zon/invoicer: the month resolver (ParseMonth,                  *)
(* ResolveMonthYear, closestYear) and the week partitioner (WeeksForMonth, *)
(* countWorkdays) of package internal/invoice.                             *)
(*                                                                         *)
(* Instants (time.Time) are integers counting ticks since 0001-01-01       *)
(* 00:00 UTC of the proleptic Gregorian calendar; a day has TicksPerDay    *)
(* ticks.  Strings are sequences of byte values.  All times are UTC.       *)
(***************************************************************************)
EXTENDS Integers, Sequences, FiniteSets, TLC

\* ------------------------------------------------------------------------
\* Bounds of the model
\* ------------------------------------------------------------------------
\* resolution of the time of day of an instant
TicksPerDay == 2
\* years whose months are partitioned by WeeksForMonth
MinYear == 2000
MaxYear == 2027
\* hoursPerWeek ranges over the multiples of 20 up to 20 * MaxHoursUnits; on
\* multiples of 5, hoursPerWeek * float64(workdays) / 5.0 is exact in float64
MaxHoursUnits == 2

\* ------------------------------------------------------------------------
\* package time (Go standard library), as used by the repository
\* ------------------------------------------------------------------------
Monday == 1
Wednesday == 3
Friday == 5

IsLeap(y) == (y % 4 = 0) /\ ((y % 100 # 0) \/ (y % 400 = 0))

DaysIn(m, y) ==
  IF m = 2 THEN (IF IsLeap(y) THEN 29 ELSE 28)
  ELSE IF m \in {4, 6, 9, 11} THEN 30 ELSE 31

\* days from 0001-01-01 to the 1st of January of year y
DaysSinceEpoch(y) ==
  365 * (y - 1) + ((y - 1) \div 4) - ((y - 1) \div 100) + ((y - 1) \div 400)

\* days from the 1st of January of a non-leap year to the 1st of month m
daysBefore == <<0, 31, 59, 90, 120, 151, 181, 212, 243, 273, 304, 334, 365>>

\* days from the 1st of January of year y to the 1st of month m (1..13)
DaysBefore(m, y) == daysBefore[m] + (IF IsLeap(y) /\ m >= 3 THEN 1 ELSE 0)

\* time.Date(year, month, day, 0, 0, 0, 0, UTC) plus `tick` ticks: month and
\* day values outside their usual ranges are normalised, as time.Date does
Date(y, m, d, tick) ==
  LET yy == y + ((m - 1) \div 12)
      mm == ((m - 1) % 12) + 1
  IN  (DaysSinceEpoch(yy) + DaysBefore(mm, yy) + (d - 1)) * TicksPerDay + tick

RECURSIVE YearFrom(_, _)
YearFrom(y, n) == IF DaysSinceEpoch(y + 1) > n THEN y ELSE YearFrom(y + 1, n)

RECURSIVE MonthFrom(_, _, _)
MonthFrom(m, y, n) ==
  IF DaysBefore(m + 1, y) > n THEN m ELSE MonthFrom(m + 1, y, n)

\* t.Year(), t.Month(), t.Day(), t.Weekday() and the time of day of t
Year(t) == YearFrom(((t \div TicksPerDay) \div 366) + 1, t \div TicksPerDay)
Month(t) == MonthFrom(1, Year(t), (t \div TicksPerDay) - DaysSinceEpoch(Year(t)))
Day(t) ==
  (t \div TicksPerDay) - DaysSinceEpoch(Year(t)) - DaysBefore(Month(t), Year(t)) + 1
TickOfDay(t) == t % TicksPerDay
Weekday(t) == ((t \div TicksPerDay) + 1) % 7

\* t.AddDate(years, months, days)
AddDate(t, years, months, days) ==
  Date(Year(t) + years, Month(t) + months, Day(t) + days, TickOfDay(t))

\* t.After(u), t.Before(u), t.Sub(u)
After(t, u) == t > u
Before(t, u) == t < u
Sub(t, u) == t - u

\* ------------------------------------------------------------------------
\* State
\* ------------------------------------------------------------------------
VARIABLES
  year, month, hoursPerWeek,  \* arguments of a call of WeeksForMonth
  weeks,                      \* the []Week it returned
  wpc,                        \* "call" before the call, "done" after it
  s,                          \* argument of a call of ParseMonth
  parsed,                     \* its result (month, err)
  ppc,
  monthStr, yearArg, now,     \* arguments of a call of ResolveMonthYear
  resolved,                   \* its result (month, year, err)
  rpc,
  inv,                        \* receiver of a call of Invoice.Total
  total,                      \* the amount it returned
  tpc,
  cfgFile,                    \* the configuration file: absent, unusable or YAML
  cfgDir,                     \* whether the directory of the file exists
  updates,                    \* argument of the last call of config.Save
  before,                     \* the configuration file when that call began
  saveErr,                    \* the error that call returned
  loaded,                     \* result (cfg, err) of the last call of config.Load
  cpc,
  args,                       \* the command line: each option absent or given
  cli,                        \* the CLI struct as filled by the argument parser
  opts,                       \* result (opts, err) of resolveOptions
  opc,
  out,                        \* lines of the output of the opencode subprocess
  expectedPath,               \* path argument of CheckOpencodeOutput
  files,                      \* paths at which a file exists on disk
  checked,                    \* the error CheckOpencodeOutput returned
  wrote,                      \* whether the opencode subprocess wrote the file
  gpc,
  trace,                      \* calls made by CLI.Run so far, in order
  runErr,                     \* the error CLI.Run returned
  upc,
  installed,                  \* the renderers exec.LookPath finds
  runsOk,                     \* whether the renderer that is run succeeds
  converted,                  \* what ConvertToPDF probed and ran, and its error
  vpc

wvars == <<year, month, hoursPerWeek, weeks, wpc>>
pvars == <<s, parsed, ppc>>
rvars == <<monthStr, yearArg, now, resolved, rpc>>
tvars == <<inv, total, tpc>>
cvars == <<cfgFile, cfgDir, updates, before, saveErr, loaded, cpc>>
ovars == <<args, cli, opts, opc>>
gvars == <<out, expectedPath, files, checked, wrote, gpc>>
uvars == <<trace, runErr, upc>>
kvars == <<installed, runsOk, converted, vpc>>
vars == <<wvars, pvars, rvars, tvars, cvars, ovars, gvars, uvars, kvars>>

\* ------------------------------------------------------------------------
\* Week partitioner
\* ------------------------------------------------------------------------
RECURSIVE countWorkdaysFrom(_, _)
countWorkdaysFrom(d, end) ==
  IF After(d, end) THEN 0
  ELSE (IF Weekday(d) >= Monday /\ Weekday(d) <= Friday THEN 1 ELSE 0)
       + countWorkdaysFrom(AddDate(d, 0, 0, 1), end)

\* as countWorkdays with the loop condition d.Before(end)
countWorkdaysExclusive(start, end) == countWorkdaysFrom(start, AddDate(end, 0, 0, -1))

\* countWorkdays counts Monday-Friday days between start and end (inclusive)
countWorkdays(start, end) == countWorkdaysFrom(start, end)

\* the week begins on the day after its Wednesday
MondayOfThursday(wed) == AddDate(wed, 0, 0, 1)

\* Monday and Sunday of the week of Wednesday `wed`
MondayOf(wed) == AddDate(wed, 0, 0, -2)
SundayOfShort(wed) == AddDate(wed, 0, 0, 3)
SundayOf(wed) == AddDate(wed, 0, 0, 4)

\* clamp to month boundaries
WeekStartUnclamped(monday, firstDay) == monday
WeekStart(monday, firstDay) == IF Before(monday, firstDay) THEN firstDay ELSE monday
WeekEndUnclamped(sunday, lastDay) == sunday
WeekEnd(sunday, lastDay) == IF After(sunday, lastDay) THEN lastDay ELSE sunday

\* prorated hours: hoursPerWeek * float64(workdays) / 5.0
ProratedHours(h, workdays) == (h * workdays) \div 5

\* the body of the loop of WeeksForMonth for the week of Wednesday `wed`
WeekOf(wed, firstDay, lastDay, h) ==
  LET weekStart == WeekStart(MondayOf(wed), firstDay)
      weekEnd == WeekEnd(SundayOf(wed), lastDay)
      workdays == countWorkdays(weekStart, weekEnd)
  IN  [Start |-> weekStart, End |-> weekEnd, Hours |-> ProratedHours(h, workdays)]

RECURSIVE WeeksFrom(_, _, _, _)
WeeksFrom(wed, firstDay, lastDay, h) ==
  IF After(wed, lastDay) THEN << >>
  ELSE <<WeekOf(wed, firstDay, lastDay, h)>>
       \o WeeksFrom(AddDate(wed, 0, 0, 7), firstDay, lastDay, h)

\* as DaysToFirstWed with wd < time.Wednesday
DaysToFirstWedStrict(wd) ==
  IF wd < Wednesday THEN Wednesday - wd ELSE 7 - wd + Wednesday

\* day offset from a day of weekday `wd` to the first Wednesday on or after it
DaysToFirstWed(wd) ==
  IF wd <= Wednesday THEN Wednesday - wd ELSE 7 - wd + Wednesday

WeeksForMonth(y, m, h) ==
  LET firstDay == Date(y, m, 1, 0)
      lastDay == AddDate(firstDay, 0, 1, -1)
      firstWed == AddDate(firstDay, 0, 0, DaysToFirstWed(Weekday(firstDay)))
  IN  WeeksFrom(firstWed, firstDay, lastDay, h)

\* ------------------------------------------------------------------------
\* Month resolver: ParseMonth
\* ------------------------------------------------------------------------
\* m.String() for m = time.January .. time.December, as bytes
MonthName == <<
  <<74, 97, 110, 117, 97, 114, 121>>,           \* January
  <<70, 101, 98, 114, 117, 97, 114, 121>>,      \* February
  <<77, 97, 114, 99, 104>>,                     \* March
  <<65, 112, 114, 105, 108>>,                   \* April
  <<77, 97, 121>>,                              \* May
  <<74, 117, 110, 101>>,                        \* June
  <<74, 117, 108, 121>>,                        \* July
  <<65, 117, 103, 117, 115, 116>>,              \* August
  <<83, 101, 112, 116, 101, 109, 98, 101, 114>>,\* September
  <<79, 99, 116, 111, 98, 101, 114>>,           \* October
  <<78, 111, 118, 101, 109, 98, 101, 114>>,     \* November
  <<68, 101, 99, 101, 109, 98, 101, 114>> >>    \* December

\* the bytes ' ' and '\t', '+' and '-', '0'..'9'
IsSpace(c) == c \in {32, 9}
IsSign(c) == c \in {43, 45}
IsDigit(c) == c >= 48 /\ c <= 57

RECURSIVE SkipSpace(_, _)
\* index of the first byte of str at or after i that is not a space
SkipSpace(str, i) ==
  IF i <= Len(str) /\ IsSpace(str[i]) THEN SkipSpace(str, i + 1) ELSE i

RECURSIVE ScanDigits(_, _)
\* index after the run of digits of str that starts at i
ScanDigits(str, i) ==
  IF i <= Len(str) /\ IsDigit(str[i]) THEN ScanDigits(str, i + 1) ELSE i

RECURSIVE DecimalValue(_, _, _)
\* value of the decimal digits str[i..j-1]
DecimalValue(str, i, j) ==
  IF j <= i THEN 0 ELSE 10 * DecimalValue(str, i, j - 1) + (str[j - 1] - 48)

\* fmt.Sscanf(str, "%d", &n): leading spaces are skipped, an optional sign and
\* the longest run of decimal digits are read, and whatever follows the
\* digits is left unread without error.  (Tokens here are far shorter than
\* the 19 digits at which the conversion to int64 would fail.)
SscanfInt(str) ==
  LET i == SkipSpace(str, 1)
      j == IF i <= Len(str) /\ IsSign(str[i]) THEN i + 1 ELSE i
      k == ScanDigits(str, j)
  IN  IF i > Len(str) THEN [err |-> TRUE, n |-> 0]      \* unexpected EOF
      ELSE IF k = j THEN [err |-> TRUE, n |-> 0]        \* expected integer
      ELSE [err |-> FALSE,
            n |-> (IF j > i /\ str[i] = 45 THEN -1 ELSE 1) * DecimalValue(str, j, k)]

\* as equalFold when only the bytes of a are folded to lower case
equalFoldLeftOnly(a, b) ==
  /\ Len(a) = Len(b)
  /\ \A i \in 1..Len(a) :
       (IF a[i] >= 65 /\ a[i] <= 90 THEN a[i] + 32 ELSE a[i]) = b[i]

\* equalFold compares two strings case-insensitively
equalFold(a, b) ==
  /\ Len(a) = Len(b)
  /\ \A i \in 1..Len(a) :
       (IF a[i] >= 65 /\ a[i] <= 90 THEN a[i] + 32 ELSE a[i])
         = (IF b[i] >= 65 /\ b[i] <= 90 THEN b[i] + 32 ELSE b[i])

RECURSIVE MatchMonthFrom(_, _)
\* the loop of ParseMonth over time.January .. time.December, from month m
MatchMonthFrom(m, str) ==
  IF m > 12 THEN [month |-> 0, err |-> "unrecognized month"]
  ELSE IF equalFold(str, MonthName[m]) THEN [month |-> m, err |-> "nil"]
  ELSE IF Len(str) = 3 /\ equalFold(str, SubSeq(MonthName[m], 1, 3))
    THEN [month |-> m, err |-> "nil"]
  ELSE MatchMonthFrom(m + 1, str)

ParseMonth(str) ==
  LET sc == SscanfInt(str)
  IN  IF ~sc.err
        THEN (IF sc.n < 1 \/ sc.n > 12
                THEN [month |-> 0, err |-> "month number out of range"]
                ELSE [month |-> sc.n, err |-> "nil"])
        ELSE MatchMonthFrom(1, str)

\* ------------------------------------------------------------------------
\* Month resolver: ResolveMonthYear
\* ------------------------------------------------------------------------
\* as absDuration without the negation
absDurationIdentity(d) == d

absDuration(d) == IF d < 0 THEN -d ELSE d

RECURSIVE closestYearLoopNonStrict(_, _, _, _, _)
\* as closestYearLoop with the comparison diff <= bestDiff
closestYearLoopNonStrict(ys, best, bestDiff, m, t) ==
  IF ys = << >> THEN best
  ELSE LET candidate == Date(Head(ys), m, 1, 0)
           diff == absDuration(Sub(t, candidate))
       IN  IF diff <= bestDiff
             THEN closestYearLoopNonStrict(Tail(ys), Head(ys), diff, m, t)
             ELSE closestYearLoopNonStrict(Tail(ys), best, bestDiff, m, t)

RECURSIVE closestYearLoop(_, _, _, _, _)
\* the loop of closestYear over the candidate years ys
closestYearLoop(ys, best, bestDiff, m, t) ==
  IF ys = << >> THEN best
  ELSE LET candidate == Date(Head(ys), m, 1, 0)
           diff == absDuration(Sub(t, candidate))
       IN  IF diff < bestDiff
             THEN closestYearLoop(Tail(ys), Head(ys), diff, m, t)
             ELSE closestYearLoop(Tail(ys), best, bestDiff, m, t)

closestYear(m, t) ==
  LET best == Year(t)
      bestDiff == absDuration(Sub(t, Date(best, m, 1, 0)))
  IN  closestYearLoop(<<Year(t) - 1, Year(t) + 1>>, best, bestDiff, m, t)

\* if year == 0 { year = <default> }
ExplicitYear(y, default) == IF y = 0 THEN default ELSE y

\* prev := now.AddDate(0, -1, 0)
PrevMonth(t) == AddDate(t, 0, -1, 0)

ResolveMonthYear(str, y, t) ==
  IF str = << >>
    THEN LET prev == PrevMonth(t)
         IN  [month |-> Month(prev),
              year |-> ExplicitYear(y, Year(prev)),
              err |-> "nil"]
    ELSE LET p == ParseMonth(str)
         IN  IF p.err # "nil" THEN [month |-> 0, year |-> 0, err |-> p.err]
             ELSE [month |-> p.month,
                   year |-> ExplicitYear(y, closestYear(p.month, t)),
                   err |-> "nil"]

\* ------------------------------------------------------------------------
\* Specifications
\* ------------------------------------------------------------------------
Years == MinYear..MaxYear
HoursPerWeekValues == {20 * k : k \in 0..MaxHoursUnits}

\* zero values of the structs Config, CLI, ResolvedOptions and Invoice; a
\* *bool is << >> when nil and <<b>> when it points to b; Customer and Month
\* are byte strings, the other strings are opaque
ZeroConfig ==
  [Vendor |-> "", Customer |-> << >>, Rate |-> 0, Hours |-> 0, PDF |-> << >>,
   Model |-> ""]
ZeroCLI ==
  [Month |-> << >>, Year |-> 0, Vendor |-> "", Customer |-> << >>, Rate |-> 0,
   Hours |-> 0, PDF |-> FALSE, Model |-> ""]
\* the command line without any argument or option: each is absent (<< >>)
\* or given with a value (<<v>>)
NoArgs ==
  [month |-> << >>, year |-> << >>, vendor |-> << >>, customer |-> << >>,
   rate |-> << >>, hours |-> << >>, pdf |-> << >>, model |-> << >>]
ZeroOptions ==
  [Month |-> << >>, Year |-> 0, Vendor |-> "", Customer |-> << >>, Rate |-> 0,
   Hours |-> 0, PDF |-> FALSE, Model |-> ""]
ZeroInvoice ==
  [Month |-> 0, Year |-> 0, Vendor |-> "", Customer |-> << >>, Rate |-> 0,
   Weeks |-> << >>]

\* a YAML document of the configuration file: each key is absent (<< >>) or
\* present with a value (<<v>>)
EmptyDoc ==
  [vendor |-> << >>, customer |-> << >>, rate |-> << >>, hours |-> << >>,
   pdf |-> << >>, model |-> << >>]
\* no file at the path of the configuration file
AbsentFile == [kind |-> "absent", data |-> EmptyDoc]
\* the empty path
NoPath == [dir |-> "", file |-> << >>]

WeeksIdle ==
  /\ year = MinYear /\ month = 1 /\ hoursPerWeek = 0
  /\ weeks = << >> /\ wpc = "idle"
ParseIdle == s = << >> /\ parsed = [month |-> 0, err |-> "nil"] /\ ppc = "idle"
ResolveIdle ==
  /\ monthStr = << >> /\ yearArg = 0 /\ now = 0
  /\ resolved = [month |-> 0, year |-> 0, err |-> "nil"] /\ rpc = "idle"
TotalIdle == inv = ZeroInvoice /\ total = 0 /\ tpc = "idle"
ConfigIdle ==
  /\ cfgFile = AbsentFile /\ cfgDir = FALSE
  /\ updates = ZeroConfig /\ before = AbsentFile /\ saveErr = "none"
  /\ loaded = [cfg |-> ZeroConfig, err |-> "none"]
  /\ cpc = "idle"
OptionsIdle ==
  args = NoArgs /\ cli = ZeroCLI /\ opts = [opts |-> ZeroOptions, err |-> "none"] /\ opc = "idle"
CheckIdle ==
  /\ out = << >> /\ expectedPath = NoPath /\ files = {}
  /\ checked = "none" /\ wrote = FALSE /\ gpc = "idle"
RunIdle == trace = << >> /\ runErr = "none" /\ upc = "idle"
ConvertIdle ==
  /\ installed = {} /\ runsOk = FALSE
  /\ converted = [probed |-> << >>, invoked |-> << >>, err |-> "none"]
  /\ vpc = "idle"

\* a caller is about to partition some month at some weekly hours
Init ==
  /\ year \in Years
  /\ month \in 1..12
  /\ hoursPerWeek \in HoursPerWeekValues
  /\ weeks = << >>
  /\ wpc = "call"
  /\ ParseIdle
  /\ ResolveIdle
  /\ TotalIdle /\ ConfigIdle /\ OptionsIdle /\ CheckIdle /\ RunIdle /\ ConvertIdle

CallWeeksForMonth ==
  /\ wpc = "call"
  /\ weeks' = WeeksForMonth(year, month, hoursPerWeek)
  /\ wpc' = "done"
  /\ UNCHANGED <<year, month, hoursPerWeek, pvars, rvars, tvars, cvars, ovars, gvars,
               uvars,
                 kvars>>

Next == CallWeeksForMonth

Spec == Init /\ [][Next]_vars

\* ------------------------------------------------------------------------
\* Properties of the week partitioner (checked under Spec)
\* ------------------------------------------------------------------------
OneDay == TicksPerDay

FirstOfMonth(y, m) == Date(y, m, 1, 0)
LastOfMonth(y, m) == Date(y, m, DaysIn(m, y), 0)

\* the days (at midnight) of month m of year y
MonthDays(y, m) == {Date(y, m, d, 0) : d \in 1..DaysIn(m, y)}

\* a finite set of instants as the ascending sequence of its elements
Ascending(S) ==
  [i \in 1..Cardinality(S) |-> CHOOSE d \in S : Cardinality({e \in S : e < d}) = i - 1]

\* the Wednesdays of month m of year y, in ascending order
WednesdaysOf(y, m) == Ascending({d \in MonthDays(y, m) : Weekday(d) = Wednesday})

\* the Wednesday of the Monday-Sunday week that contains instant t
NaturalWednesday(t) == t - ((Weekday(t) + 6) % 7) * OneDay + 2 * OneDay

\* the Monday-Friday days of a set of days
WorkdaysOf(S) == {d \in S : Weekday(d) \in Monday..Friday}

\* the days (at midnight) from start to end inclusive
DaysBetween(start, end) == {d \in start..end : d % OneDay = 0}

RECURSIVE SumHours(_)
SumHours(ws) == IF ws = << >> THEN 0 ELSE Head(ws).Hours + SumHours(Tail(ws))

\* C1: WeeksForMonth returns exactly one week per Wednesday of the month and
\* no other week: the natural (unclamped) Wednesdays of the returned weeks
\* are the Wednesdays of the month, in ascending order.
C1_OneWeekPerWednesday ==
  wpc = "done" =>
    [i \in 1..Len(weeks) |-> NaturalWednesday(weeks[i].Start)]
      = WednesdaysOf(year, month)

\* March 2025 starts on a Saturday: its first week is that of Wednesday
\* Mar 5, not that of Wednesday Feb 26
C1_Witness ==
  /\ wpc = "done" /\ year = 2025 /\ month = 3
  /\ Len(weeks) = 4
  /\ NaturalWednesday(weeks[1].Start) = Date(2025, 3, 5, 0)

\* C2: the [Start, End] ranges of the returned weeks cover the whole month:
\* every day of the month lies in some returned week.
C2_WeeksCoverMonth ==
  wpc = "done" =>
    \A d \in MonthDays(year, month) :
      \E i \in 1..Len(weeks) : weeks[i].Start <= d /\ d <= weeks[i].End

\* C3: the sum of Hours over the returned weeks, divided by hoursPerWeek,
\* equals (number of Monday-Friday days of the month) / 5.
C3_HoursSumMatchesWorkdays ==
  wpc = "done" =>
    5 * SumHours(weeks)
      = hoursPerWeek * Cardinality(WorkdaysOf(MonthDays(year, month)))

\* C4: the returned weeks are in chronological order, do not overlap and are
\* contiguous: each week starts exactly one day after the previous one ends.
C4_WeeksContiguous ==
  wpc = "done" =>
    /\ \A i \in 1..Len(weeks) : weeks[i].Start <= weeks[i].End
    /\ \A i \in 1..(Len(weeks) - 1) :
         /\ weeks[i + 1].Start = weeks[i].End + OneDay
         /\ weeks[i].End < weeks[i + 1].Start

C4_Witness ==
  /\ wpc = "done" /\ Len(weeks) = 5
  /\ weeks[2].Start = weeks[1].End + OneDay
  /\ weeks[5].Start = weeks[4].End + OneDay

\* C5: every returned week has Hours = hoursPerWeek * w / 5, w the number of
\* Monday-Friday days in its clamped range [Start, End]; a week with all five
\* workdays has exactly hoursPerWeek, and a boundary week with 3 workdays at
\* 40 hours per week has 24.
C5_HoursProrated ==
  wpc = "done" =>
    \A i \in 1..Len(weeks) :
      LET w == Cardinality(WorkdaysOf(DaysBetween(weeks[i].Start, weeks[i].End)))
      IN  /\ 5 * weeks[i].Hours = hoursPerWeek * w
          /\ (w = 5 => weeks[i].Hours = hoursPerWeek)
          /\ (w = 3 /\ hoursPerWeek = 40 => weeks[i].Hours = 24)

\* January 2025: the first week is clamped to Wed Jan 1 - Sun Jan 5, 24 hours,
\* the second is the full week Jan 6 - Jan 12, 40 hours
C5_Witness ==
  /\ wpc = "done" /\ year = 2025 /\ month = 1 /\ hoursPerWeek = 40
  /\ weeks[1].Hours = 24
  /\ weeks[2].Hours = 40

Max(a, b) == IF a >= b THEN a ELSE b
Min(a, b) == IF a <= b THEN a ELSE b

MaxTokenLen == 3

\* '\t' ' ' '+' '-' '0' '1' '2' '3' 'J' 'a' 'j' 'n' 'x'
TokenBytes == {9, 32, 43, 45, 48, 49, 50, 51, 74, 97, 106, 110, 120}

Lower(c) == IF c >= 65 /\ c <= 90 THEN c + 32 ELSE c
Upper(c) == IF c >= 97 /\ c <= 122 THEN c - 32 ELSE c

\* the word w in every combination of letter cases
CaseVariants(w) ==
  {[i \in 1..Len(w) |-> IF b[i] THEN Upper(w[i]) ELSE Lower(w[i])] :
     b \in [1..Len(w) -> BOOLEAN]}

IsCaseVariant(str, w) ==
  /\ Len(str) = Len(w)
  /\ \A i \in 1..Len(w) : str[i] \in {Lower(w[i]), Upper(w[i])}

\* the decimal numeral of m, 1 <= m <= 99
Decimal(m) == IF m < 10 THEN <<48 + m>> ELSE <<48 + (m \div 10), 48 + (m % 10)>>

\* "0" "13" "foo" "jan2" "Month" "3rd" "12x" "007" "-1" "1e1" "marc" "sept"
OtherTokens == {
  <<48>>, <<49, 51>>, <<102, 111, 111>>, <<106, 97, 110, 50>>,
  <<77, 111, 110, 116, 104>>, <<51, 114, 100>>, <<49, 50, 120>>,
  <<48, 48, 55>>, <<45, 49>>, <<49, 101, 49>>, <<109, 97, 114, 99>>,
  <<115, 101, 112, 116>> }

Tokens ==
  UNION {[1..n -> TokenBytes] : n \in 0..MaxTokenLen}
    \cup {Decimal(m) : m \in 1..12}
    \cup UNION {CaseVariants(MonthName[m]) : m \in 1..12}
    \cup UNION {CaseVariants(SubSeq(MonthName[m], 1, 3)) : m \in 1..12}
    \cup OtherTokens

InitParse ==
  /\ WeeksIdle
  /\ s \in Tokens
  /\ parsed = [month |-> 0, err |-> "nil"]
  /\ ppc = "call"
  /\ ResolveIdle
  /\ TotalIdle /\ ConfigIdle /\ OptionsIdle /\ CheckIdle /\ RunIdle /\ ConvertIdle

CallParseMonth ==
  /\ ppc = "call"
  /\ parsed' = ParseMonth(s)
  /\ ppc' = "done"
  /\ UNCHANGED <<s, wvars, rvars, tvars, cvars, ovars, gvars, uvars,
                 kvars>>

NextParse == CallParseMonth

SpecParse == InitParse /\ [][NextParse]_vars

\* str is an optional sign and decimal digits, possibly between blanks
DenotesInteger(str) ==
  \E i \in 1..Len(str), k \in 1..Len(str) :
    /\ i <= k
    /\ \A q \in 1..(i - 1) : IsSpace(str[q])
    /\ \A q \in (k + 1)..Len(str) : IsSpace(str[q])
    /\ \/ \A q \in i..k : IsDigit(str[q])
       \/ /\ i < k /\ IsSign(str[i])
          /\ \A q \in (i + 1)..k : IsDigit(str[q])

\* the integer that such a token denotes
IntegerOf(str) ==
  LET i == SkipSpace(str, 1)
      j == IF IsSign(str[i]) THEN i + 1 ELSE i
  IN  (IF str[i] = 45 THEN -1 ELSE 1) * DecimalValue(str, j, ScanDigits(str, j))

\* a token of one of the three accepted forms
ValidMonthToken(str) ==
  \/ DenotesInteger(str) /\ IntegerOf(str) \in 1..12
  \/ \E m \in 1..12 : IsCaseVariant(str, MonthName[m])
  \/ \E m \in 1..12 : IsCaseVariant(str, SubSeq(MonthName[m], 1, 3))

\* C8: ParseMonth fails for every token that is not an integer in [1,12], a
\* full English month name or a 3-letter month abbreviation (in any letter
\* case), including a decimal number followed by other characters.
C8_InvalidTokensRejected ==
  ppc = "done" /\ ~ValidMonthToken(s) => parsed.err # "nil"

\* C9: ParseMonth maps "1".."12" to the month of that number, every full
\* English month name in any letter case to that month and every 3-letter
\* prefix of a month name in any letter case to that month, without error.
C9_ValidTokensParsed ==
  ppc = "done" =>
    \A m \in 1..12 :
      (\/ s = Decimal(m)
       \/ IsCaseVariant(s, MonthName[m])
       \/ IsCaseVariant(s, SubSeq(MonthName[m], 1, 3)))
        => parsed = [month |-> m, err |-> "nil"]

\* "sEPTEMBER" parses to September
C9_Witness ==
  /\ ppc = "done"
  /\ s = <<115, 69, 80, 84, 69, 77, 66, 69, 82>>
  /\ parsed = [month |-> 9, err |-> "nil"]

\* ------------------------------------------------------------------------
\* ResolveMonthYear on bounded inputs (SpecResolve)
\* ------------------------------------------------------------------------
\* years of `now`
MinNowYear == 2024
MaxNowYear == 2025

\* every instant of the years of `now`
Instants == Date(MinNowYear, 1, 1, 0)..(Date(MaxNowYear + 1, 1, 1, 0) - 1)

\* "november" "june" "foo"
November == <<110, 111, 118, 101, 109, 98, 101, 114>>
June == <<106, 117, 110, 101>>
Foo == <<102, 111, 111>>

\* month tokens of a call: none, "1".."12", two names, an unparseable one
MonthStrs == {<< >>, November, June, Foo} \cup {Decimal(m) : m \in 1..12}

\* year arguments of a call: none (0) or an explicit year
YearArgs == {0, 2024}

InitResolve ==
  /\ WeeksIdle
  /\ ParseIdle
  /\ monthStr \in MonthStrs
  /\ yearArg \in YearArgs
  /\ now \in Instants
  /\ resolved = [month |-> 0, year |-> 0, err |-> "nil"]
  /\ rpc = "call"
  /\ TotalIdle /\ ConfigIdle /\ OptionsIdle /\ CheckIdle /\ RunIdle /\ ConvertIdle

CallResolveMonthYear ==
  /\ rpc = "call"
  /\ resolved' = ResolveMonthYear(monthStr, yearArg, now)
  /\ rpc' = "done"
  /\ UNCHANGED <<monthStr, yearArg, now, wvars, pvars, tvars, cvars, ovars, gvars,
               uvars,
                 kvars>>

NextResolve == CallResolveMonthYear

SpecResolve == InitResolve /\ [][NextResolve]_vars

\* C7: with no month token and no year, ResolveMonthYear returns the calendar
\* month immediately preceding now's month with that month's year, for every
\* day of now's month (including the 29th, 30th and 31st).
C7_DefaultsToPreviousMonth ==
  rpc = "done" /\ monthStr = << >> /\ yearArg = 0 =>
    resolved =
      IF Month(now) = 1
        THEN [month |-> 12, year |-> Year(now) - 1, err |-> "nil"]
        ELSE [month |-> Month(now) - 1, year |-> Year(now), err |-> "nil"]

Abs(x) == IF x < 0 THEN -x ELSE x

\* C10: with a parseable month token and no year, ResolveMonthYear returns a
\* year among now.year-1, now.year, now.year+1 whose first day of the month
\* is at the smallest absolute distance from now; ("november", 0,
\* 2025-03-15) gives 2024.
C10_ClosestYear ==
  rpc = "done" /\ monthStr # << >> /\ yearArg = 0 /\ resolved.err = "nil" =>
    LET candidates == {Year(now) - 1, Year(now), Year(now) + 1}
        dist(y) == Abs(now - Date(y, resolved.month, 1, 0))
    IN  /\ resolved.year \in candidates
        /\ \A y \in candidates : dist(resolved.year) <= dist(y)
        /\ (monthStr = November /\ now = Date(2025, 3, 15, 0)
              => resolved.month = 11 /\ resolved.year = 2024)

C10_Witness ==
  /\ rpc = "done" /\ monthStr = November /\ yearArg = 0
  /\ now = Date(2025, 3, 15, 0)
  /\ resolved = [month |-> 11, year |-> 2024, err |-> "nil"]

\* distance from now to the first day of the resolved month in year y
DistanceTo(y) == Abs(now - Date(y, resolved.month, 1, 0))

\* the candidate years of closestYear, and those at the smallest distance
CandidateYears == {Year(now) - 1, Year(now), Year(now) + 1}
NearestYears ==
  {y \in CandidateYears : \A z \in CandidateYears : DistanceTo(y) <= DistanceTo(z)}

\* a call with a parseable month token and no year has returned
ClosestYearReturned ==
  rpc = "done" /\ monthStr # << >> /\ yearArg = 0 /\ resolved.err = "nil"

\* C11 (as claimed): when two candidate years are at exactly the same
\* smallest distance from now, ResolveMonthYear with year 0 returns the
\* smaller (earlier) of the tied years.
C11_TiePrefersEarlierYear ==
  ClosestYearReturned /\ Cardinality(NearestYears) = 2 =>
    \A y \in NearestYears : resolved.year <= y

\* C11 (amended): when two candidate years are at exactly the same smallest
\* distance from now, now.year is one of them and ResolveMonthYear with year
\* 0 returns now.year: the later year of a tie between now.year-1 and
\* now.year, the earlier year of a tie between now.year and now.year+1.
C11_TiePrefersCurrentYear ==
  ClosestYearReturned /\ Cardinality(NearestYears) = 2 =>
    /\ Year(now) \in NearestYears
    /\ resolved.year = Year(now)

\* "november" at 2025-05-02 12:00, the midpoint of 2024-11-01 and 2025-11-01
C11_Witness ==
  /\ ClosestYearReturned /\ monthStr = November
  /\ TicksPerDay = 2 /\ now = Date(2025, 5, 2, 1)
  /\ NearestYears = {2024, 2025}
  /\ resolved.year = 2025

\* C12: with a non-zero year and an empty or parseable month token,
\* ResolveMonthYear returns exactly that year; with an empty token the month
\* is the month preceding now's month, with a parseable token the parsed
\* month; ("june", 2024) gives (June, 2024).
C12_ExplicitYearReturned ==
  rpc = "done" /\ yearArg # 0 /\ monthStr # Foo =>
    /\ resolved.err = "nil"
    /\ resolved.year = yearArg
    /\ (monthStr = << >> => resolved.month = ((Month(now) + 10) % 12) + 1)
    /\ (monthStr = June => resolved.month = 6)
    /\ (monthStr = November => resolved.month = 11)
    /\ \A m \in 1..12 : monthStr = Decimal(m) => resolved.month = m

\* ------------------------------------------------------------------------
\* Invoice assembler: Invoice.Total (SpecTotal)
\* ------------------------------------------------------------------------
RECURSIVE TotalLastOnlyFrom(_, _, _)
\* as TotalFrom with total = w.Hours * inv.Rate
TotalLastOnlyFrom(ws, rate, acc) ==
  IF ws = << >> THEN acc
  ELSE TotalLastOnlyFrom(Tail(ws), rate, Head(ws).Hours * rate)

RECURSIVE TotalFrom(_, _, _)
\* the loop of Total over the weeks ws, from the running total acc
TotalFrom(ws, rate, acc) ==
  IF ws = << >> THEN acc
  ELSE TotalFrom(Tail(ws), rate, acc + Head(ws).Hours * rate)

\* Total returns the total invoice amount
Total(i) == TotalFrom(i.Weeks, i.Rate, 0)

\* most weeks of an invoice, largest hourly rate (in units of RateUnit)
MaxInvoiceWeeks == 3
MaxRateUnits == 2

\* hours of a week and hourly rates of an invoice; products and sums of
\* integers of this size are exact in float64
WeekHours == {0, 24, 32, 40}
Rates == {50 * k : k \in 0..MaxRateUnits}

Invoices ==
  {[ZeroInvoice EXCEPT !.Rate = r, !.Weeks = ws] :
     r \in Rates,
     ws \in UNION {[1..n -> {[Start |-> 0, End |-> 0, Hours |-> h] : h \in WeekHours}] :
                     n \in 0..MaxInvoiceWeeks}}

InitTotal ==
  /\ WeeksIdle /\ ParseIdle /\ ResolveIdle
  /\ inv \in Invoices
  /\ total = 0
  /\ tpc = "call"
  /\ ConfigIdle /\ OptionsIdle /\ CheckIdle /\ RunIdle /\ ConvertIdle

CallTotal ==
  /\ tpc = "call"
  /\ total' = Total(inv)
  /\ tpc' = "done"
  /\ UNCHANGED <<inv, wvars, pvars, rvars, cvars, ovars, gvars, uvars,
                 kvars>>

NextTotal == CallTotal

SpecTotal == InitTotal /\ [][NextTotal]_vars

\* the hours of the weeks of an invoice, added up from the last week
RECURSIVE HoursOf(_, _)
HoursOf(i, n) == IF n = 0 THEN 0 ELSE HoursOf(i, n - 1) + i.Weeks[n].Hours

\* C13: Total() equals the sum over the weeks of week.Hours * Rate: 0 for an
\* invoice with no weeks, Rate * (sum of the hours) on these bounded integer
\* inputs; and Total does not modify the invoice it is called on.
C13_TotalIsSum ==
  /\ [](tpc = "done" =>
          /\ total = inv.Rate * HoursOf(inv, Len(inv.Weeks))
          /\ (inv.Weeks = << >> => total = 0))
  /\ [][inv' = inv]_vars

\* rate 100 and weeks of 40, 32 and 24 hours give 9600
C13_Witness ==
  /\ tpc = "done" /\ inv.Rate = 100
  /\ Len(inv.Weeks) = 3
  /\ inv.Weeks[1].Hours = 40 /\ inv.Weeks[2].Hours = 32 /\ inv.Weeks[3].Hours = 24
  /\ total = 9600

\* ------------------------------------------------------------------------
\* config.Load and config.Save
\* ------------------------------------------------------------------------
\* yaml.Marshal of a Config: every field is tagged omitempty, so a key is
\* written only for a non-empty string, a non-zero number or a non-nil
\* pointer (a pointer to false is written)
Marshal(c) ==
  [vendor |-> IF c.Vendor = "" THEN << >> ELSE <<c.Vendor>>,
   customer |-> IF Len(c.Customer) = 0 THEN << >> ELSE <<c.Customer>>,
   rate |-> IF c.Rate = 0 THEN << >> ELSE <<c.Rate>>,
   hours |-> IF c.Hours = 0 THEN << >> ELSE <<c.Hours>>,
   pdf |-> IF Len(c.PDF) = 0 THEN << >> ELSE <<c.PDF[1]>>,
   model |-> IF c.Model = "" THEN << >> ELSE <<c.Model>>]

\* yaml.Unmarshal of a document into a zero Config: a present key sets its
\* field, an absent key leaves the zero value
Unmarshal(doc) ==
  [Vendor |-> IF Len(doc.vendor) = 0 THEN "" ELSE doc.vendor[1],
   Customer |-> IF Len(doc.customer) = 0 THEN << >> ELSE doc.customer[1],
   Rate |-> IF Len(doc.rate) = 0 THEN 0 ELSE doc.rate[1],
   Hours |-> IF Len(doc.hours) = 0 THEN 0 ELSE doc.hours[1],
   PDF |-> IF Len(doc.pdf) = 0 THEN << >> ELSE <<doc.pdf[1]>>,
   Model |-> IF Len(doc.model) = 0 THEN "" ELSE doc.model[1]]

\* a file that cannot be read or parsed is taken as an empty record
LoadLenient(f) ==
  IF f.kind = "yaml" THEN [cfg |-> Unmarshal(f.data), err |-> "nil"]
  ELSE [cfg |-> ZeroConfig, err |-> "nil"]

\* Load(path) on the file f at path; a nil *Config is written ZeroConfig
Load(f) ==
  IF f.kind = "absent" THEN [cfg |-> ZeroConfig, err |-> "nil"]
  ELSE IF f.kind = "unreadable"
    THEN [cfg |-> ZeroConfig, err |-> "reading config file"]
  ELSE IF f.kind = "malformed"
    THEN [cfg |-> ZeroConfig, err |-> "parsing config file"]
  ELSE [cfg |-> Unmarshal(f.data), err |-> "nil"]

\* the merge of Save overwrites every field, provided or not
MergeOverwriteAll(existing, upd) == upd

\* the merge of Save: a field of the update replaces the existing one when it
\* is a non-empty string, a non-zero number or a non-nil pointer
Merge(existing, upd) ==
  [Vendor |-> IF upd.Vendor # "" THEN upd.Vendor ELSE existing.Vendor,
   Customer |-> IF Len(upd.Customer) # 0 THEN upd.Customer
                ELSE existing.Customer,
   Rate |-> IF upd.Rate # 0 THEN upd.Rate ELSE existing.Rate,
   Hours |-> IF upd.Hours # 0 THEN upd.Hours ELSE existing.Hours,
   PDF |-> IF Len(upd.PDF) # 0 THEN upd.PDF ELSE existing.PDF,
   Model |-> IF upd.Model # "" THEN upd.Model ELSE existing.Model]

\* what a failed os.WriteFile can leave at the path: the file as it was (the
\* open failed), an empty file (truncated, nothing written) or a part of the
\* new content
FailedWrites(f) ==
  {f, [kind |-> "yaml", data |-> EmptyDoc], [kind |-> "malformed", data |-> EmptyDoc]}

\* the outcomes (file, dir, err) of Save(path, upd) on file f, dir telling
\* whether the directory of path exists; os.MkdirAll succeeds on an existing
\* directory and may fail otherwise, os.WriteFile may fail
SaveOutcomes(f, dir, upd) ==
  LET existing == Load(f)
  IN  IF existing.err # "nil"
        THEN {[file |-> f, dir |-> dir, err |-> existing.err]}
        ELSE LET data == Marshal(Merge(existing.cfg, upd))
             IN  {[file |-> f, dir |-> dir, err |-> "creating config directory"] :
                    x \in IF dir THEN {} ELSE {0}}
                 \cup {[file |-> g, dir |-> TRUE, err |-> "writing config file"] :
                         g \in FailedWrites(f)}
                 \cup {[file |-> [kind |-> "yaml", data |-> data],
                        dir |-> TRUE, err |-> "nil"]}

\* "Client Co" and "Beta"
ClientCo == <<67, 108, 105, 101, 110, 116, 32, 67, 111>>
Beta == <<66, 101, 116, 97>>
DefaultModel == "anthropic/claude-haiku-4-5"
SonnetModel == "anthropic/claude-sonnet-4-6"

\* the fields an update record provides
Provided(u) ==
  {k \in {"Vendor", "Customer", "Rate", "Hours", "PDF", "Model"} :
     u[k] # ZeroConfig[k]}

\* an update record provides at most MaxProvided fields, or all six
MaxProvided == 2

\* the update records of a call of Save: every field is left out or provided
Updates ==
  {u \in [Vendor : {"", "Globex"}, Customer : {<< >>, Beta}, Rate : {0, 150},
          Hours : {0, 20}, PDF : {<< >>, <<TRUE>>, <<FALSE>>},
          Model : {"", SonnetModel}] :
     Cardinality(Provided(u)) \in (0..MaxProvided) \cup {6}}

\* documents found at the path before the first call: written by an earlier
\* Save (only non-empty keys) or by hand (keys with empty values)
StoredDocs ==
  {EmptyDoc,
   Marshal([Vendor |-> "Acme", Customer |-> ClientCo, Rate |-> 100,
            Hours |-> 40, PDF |-> <<TRUE>>, Model |-> DefaultModel]),
   Marshal([Vendor |-> "Acme", Customer |-> ClientCo, Rate |-> 100,
            Hours |-> 40, PDF |-> <<FALSE>>, Model |-> ""]),
   Marshal([Vendor |-> "Acme", Customer |-> << >>, Rate |-> 100,
            Hours |-> 0, PDF |-> << >>, Model |-> ""]),
   [vendor |-> <<"">>, customer |-> <<ClientCo>>, rate |-> <<0>>,
    hours |-> <<40>>, pdf |-> << >>, model |-> <<"">>]}

StoredFiles ==
  {AbsentFile, [kind |-> "unreadable", data |-> EmptyDoc],
   [kind |-> "malformed", data |-> EmptyDoc]}
  \cup {[kind |-> "yaml", data |-> doc] : doc \in StoredDocs}

\* a caller is about to save some update on some stored file; a file that
\* is there has its directory
InitConfig ==
  /\ cfgFile \in StoredFiles
  /\ cfgDir \in {d \in BOOLEAN : cfgFile.kind # "absent" => d}
  /\ updates \in Updates
  /\ before = cfgFile
  /\ saveErr = "none"
  /\ loaded = [cfg |-> ZeroConfig, err |-> "none"]
  /\ cpc = "call"
  /\ WeeksIdle /\ ParseIdle /\ ResolveIdle /\ TotalIdle
  /\ OptionsIdle /\ CheckIdle /\ RunIdle /\ ConvertIdle

\* config.Save(path, updates)
CallSave ==
  /\ cpc = "call"
  /\ \E o \in SaveOutcomes(cfgFile, cfgDir, updates) :
       /\ cfgFile' = o.file
       /\ cfgDir' = o.dir
       /\ saveErr' = o.err
  /\ before' = cfgFile
  /\ cpc' = "saved"
  /\ UNCHANGED <<updates, loaded, wvars, pvars, rvars, tvars, ovars, gvars, uvars,
                 kvars>>

\* config.Load(path) after the call of Save
CallLoad ==
  /\ cpc = "saved"
  /\ loaded' = Load(cfgFile)
  /\ cpc' = "loaded"
  /\ UNCHANGED <<cfgFile, cfgDir, updates, before, saveErr,
                 wvars, pvars, rvars, tvars, ovars, gvars, uvars,
                 kvars>>

\* the caller comes back with another update
NextUpdate ==
  /\ cpc = "loaded"
  /\ updates' \in Updates
  /\ before' = cfgFile
  /\ saveErr' = "none"
  /\ loaded' = [cfg |-> ZeroConfig, err |-> "none"]
  /\ cpc' = "call"
  /\ UNCHANGED <<cfgFile, cfgDir, wvars, pvars, rvars, tvars, ovars, gvars, uvars,
                 kvars>>

NextConfig == CallSave \/ CallLoad \/ NextUpdate

SpecConfig == InitConfig /\ [][NextConfig]_vars

\* the value stored for key k of file f, zero when the file or the key is absent
StoredValue(f, k, zero) ==
  IF f.kind = "yaml" /\ Len(f.data[k]) # 0 THEN f.data[k][1] ELSE zero

\* C18: after Save(path, updates) succeeds, Load(path) returns without error
\* the record whose every field is the update's value when the update
\* provided it (non-empty string, non-zero number, non-nil pdf) and the
\* previously stored value otherwise; when no file existed the file and its
\* directory are created and the previous record is taken as empty.
C18_SaveMergesProvidedFields ==
  cpc = "loaded" /\ saveErr = "nil" =>
    /\ loaded.err = "nil"
    /\ loaded.cfg.Vendor = IF updates.Vendor # "" THEN updates.Vendor
                           ELSE StoredValue(before, "vendor", "")
    /\ loaded.cfg.Customer = IF updates.Customer # << >> THEN updates.Customer
                             ELSE StoredValue(before, "customer", << >>)
    /\ loaded.cfg.Rate = IF updates.Rate # 0 THEN updates.Rate
                         ELSE StoredValue(before, "rate", 0)
    /\ loaded.cfg.Hours = IF updates.Hours # 0 THEN updates.Hours
                          ELSE StoredValue(before, "hours", 0)
    /\ loaded.cfg.PDF = IF updates.PDF # << >> THEN updates.PDF
                        ELSE IF before.kind = "yaml" THEN before.data.pdf
                        ELSE << >>
    /\ loaded.cfg.Model = IF updates.Model # "" THEN updates.Model
                          ELSE StoredValue(before, "model", "")
    /\ cfgFile.kind = "yaml" /\ cfgDir
    /\ (before.kind = "absent" =>
          loaded.cfg = [ZeroConfig EXCEPT !.Vendor = updates.Vendor,
                          !.Customer = updates.Customer, !.Rate = updates.Rate,
                          !.Hours = updates.Hours, !.PDF = updates.PDF,
                          !.Model = updates.Model])

\* a stored record with vendor, customer, rate, hours and pdf: true, updated
\* with a rate and pdf: false only
C18_Witness ==
  /\ cpc = "loaded" /\ saveErr = "nil"
  /\ before.kind = "yaml" /\ before.data.vendor = <<"Acme">>
  /\ before.data.pdf = <<TRUE>>
  /\ updates = [ZeroConfig EXCEPT !.Rate = 150, !.PDF = <<FALSE>>]
  /\ loaded.cfg = [Vendor |-> "Acme", Customer |-> ClientCo, Rate |-> 150,
                   Hours |-> 40, PDF |-> <<FALSE>>, Model |-> DefaultModel]

\* ------------------------------------------------------------------------
\* CLI.resolveOptions
\* ------------------------------------------------------------------------
\* the CLI struct the argument parser fills from a command line: an absent
\* argument or option leaves the zero value, except the model, whose tag
\* declares a default
ParseArgs(a) ==
  [Month |-> IF Len(a.month) = 0 THEN << >> ELSE a.month[1],
   Year |-> IF Len(a.year) = 0 THEN 0 ELSE a.year[1],
   Vendor |-> IF Len(a.vendor) = 0 THEN "" ELSE a.vendor[1],
   Customer |-> IF Len(a.customer) = 0 THEN << >> ELSE a.customer[1],
   Rate |-> IF Len(a.rate) = 0 THEN 0 ELSE a.rate[1],
   Hours |-> IF Len(a.hours) = 0 THEN 0 ELSE a.hours[1],
   PDF |-> IF Len(a.pdf) = 0 THEN FALSE ELSE a.pdf[1],
   Model |-> IF Len(a.model) = 0 THEN DefaultModel ELSE a.model[1]]

\* the stored value wins whenever there is one
MergeFieldConfigFirst(cliValue, cfgValue, zero) ==
  IF cfgValue = zero THEN cliValue ELSE cfgValue

\* merge of vendor, customer, rate and hours: the CLI value, and when it is
\* the zero value the stored one
MergeField(cliValue, cfgValue, zero) ==
  IF cliValue = zero THEN cfgValue ELSE cliValue

\* the stored pdf value is never consulted
MergePDFFlagOnly(cliPDF, cfgPDF) == cliPDF

\* merge of the PDF toggle: the stored value is used when the flag is false
\* and the stored pointer is not nil
MergePDF(cliPDF, cfgPDF) ==
  IF ~cliPDF /\ Len(cfgPDF) # 0 THEN cfgPDF[1] ELSE cliPDF

\* merge of the model: the stored value is used only when the CLI value is empty
MergeModel(cliModel, cfgModel) ==
  IF cliModel = "" /\ cfgModel # "" THEN cfgModel ELSE cliModel

\* c.resolveOptions("") on the configuration file f; homeOk tells whether
\* config.DefaultPath finds the home directory; a nil *ResolvedOptions is
\* written ZeroOptions
resolveOptions(c, f, homeOk) ==
  IF ~homeOk THEN [opts |-> ZeroOptions, err |-> "determining config path"]
  ELSE LET l == Load(f)
       IN  IF l.err # "nil" THEN [opts |-> ZeroOptions, err |-> "loading config"]
           ELSE [opts |->
                   [Month |-> c.Month,
                    Year |-> c.Year,
                    Vendor |-> MergeField(c.Vendor, l.cfg.Vendor, ""),
                    Customer |-> MergeField(c.Customer, l.cfg.Customer, << >>),
                    Rate |-> MergeField(c.Rate, l.cfg.Rate, 0),
                    Hours |-> MergeField(c.Hours, l.cfg.Hours, 0),
                    PDF |-> MergePDF(c.PDF, l.cfg.PDF),
                    Model |-> MergeModel(c.Model, l.cfg.Model)],
                 err |-> "nil"]

\* the command lines of the invoice command
ArgLines ==
  [month : {<< >>, <<June>>}, year : {<< >>, <<2024>>},
   vendor : {<< >>, <<"Acme">>}, customer : {<< >>, <<ClientCo>>},
   rate : {<< >>, <<100>>, <<0>>}, hours : {<< >>, <<40>>},
   pdf : {<< >>, <<TRUE>>, <<FALSE>>},
   model : {<< >>, <<DefaultModel>>, <<SonnetModel>>, <<"">>}]

\* the configuration files an invoice command can find: the stored files and
\* those a first set config wrote
ConfigFiles ==
  StoredFiles \cup {[kind |-> "yaml", data |-> Marshal(u)] : u \in Updates}

\* the argument parser has filled the CLI struct from some command line
InitOptions ==
  /\ args \in ArgLines
  /\ cli = ParseArgs(args)
  /\ cfgFile \in ConfigFiles
  /\ cfgDir = (cfgFile.kind # "absent")
  /\ updates = ZeroConfig /\ before = cfgFile /\ saveErr = "none"
  /\ loaded = [cfg |-> ZeroConfig, err |-> "none"]
  /\ cpc = "idle"
  /\ opts = [opts |-> ZeroOptions, err |-> "none"]
  /\ opc = "call"
  /\ WeeksIdle /\ ParseIdle /\ ResolveIdle /\ TotalIdle /\ CheckIdle /\ RunIdle /\ ConvertIdle

CallResolveOptions ==
  /\ opc = "call"
  /\ \E homeOk \in BOOLEAN : opts' = resolveOptions(cli, cfgFile, homeOk)
  /\ opc' = "done"
  /\ UNCHANGED <<args, cli, wvars, pvars, rvars, tvars, cvars, gvars, uvars,
                 kvars>>

NextOptions == CallResolveOptions

SpecOptions == InitOptions /\ [][NextOptions]_vars

\* resolveOptions returned options
OptionsResolved == opc = "done" /\ opts.err = "nil"

\* C14: for each of vendor, customer, rate and hours independently, the
\* resolved value is the CLI value when that is non-empty (strings) or
\* non-zero (numbers) and the stored configuration value otherwise; a field
\* supplied by neither source resolves to empty/zero.
C14_CLIValueElseStored ==
  OptionsResolved =>
    /\ opts.opts.Vendor = IF cli.Vendor # "" THEN cli.Vendor
                          ELSE StoredValue(cfgFile, "vendor", "")
    /\ opts.opts.Customer = IF cli.Customer # << >> THEN cli.Customer
                            ELSE StoredValue(cfgFile, "customer", << >>)
    /\ opts.opts.Rate = IF cli.Rate # 0 THEN cli.Rate
                        ELSE StoredValue(cfgFile, "rate", 0)
    /\ opts.opts.Hours = IF cli.Hours # 0 THEN cli.Hours
                         ELSE StoredValue(cfgFile, "hours", 0)
    /\ (args.vendor = << >> /\ cfgFile.data.vendor = << >>
          => opts.opts.Vendor = "")
    /\ (args.customer = << >> /\ cfgFile.data.customer = << >>
          => opts.opts.Customer = << >>)
    /\ (args.rate = << >> /\ cfgFile.data.rate = << >> => opts.opts.Rate = 0)
    /\ (args.hours = << >> /\ cfgFile.data.hours = << >> => opts.opts.Hours = 0)

\* --vendor Acme alone on a configuration with vendor Globex and rate 150
C14_Witness ==
  /\ OptionsResolved
  /\ args.vendor = <<"Acme">> /\ args.rate = << >> /\ args.hours = << >>
  /\ cfgFile.data.vendor = <<"Globex">> /\ cfgFile.data.rate = <<150>>
  /\ cfgFile.data.hours = << >>
  /\ opts.opts.Vendor = "Acme" /\ opts.opts.Rate = 150 /\ opts.opts.Hours = 0

\* C15: when the model option is not supplied on the command line (the
\* argument parser fills the field with the default) and the stored
\* configuration holds a different non-empty model, the resolved model is
\* the stored configuration's model.
C15_StoredModelUsed ==
  OptionsResolved /\ args.model = << >>
    /\ StoredValue(cfgFile, "model", "") \notin {"", DefaultModel}
    => opts.opts.Model = StoredValue(cfgFile, "model", "")

\* C16: the resolved PDF toggle is true exactly when the CLI flag is set, or
\* the flag is not set and the stored configuration has pdf true; it is
\* false when the flag is not set and the configuration has pdf false or
\* no pdf.
C16_PDFToggle ==
  OptionsResolved =>
    /\ opts.opts.PDF = (cli.PDF \/ (~cli.PDF /\ cfgFile.data.pdf = <<TRUE>>))
    /\ (~cli.PDF /\ cfgFile.data.pdf \in {<<FALSE>>, << >>} => ~opts.opts.PDF)

\* no --pdf on the command line, pdf: true in the configuration
C16_Witness ==
  /\ OptionsResolved
  /\ args.pdf = << >> /\ ~cli.PDF
  /\ cfgFile.kind = "yaml" /\ cfgFile.data.pdf = <<TRUE>>
  /\ opts.opts.PDF

\* ------------------------------------------------------------------------
\* Output paths and CheckOpencodeOutput
\* ------------------------------------------------------------------------
RECURSIVE FormatInt(_)
\* %d of a non-negative integer
FormatInt(n) ==
  IF n < 10 THEN <<48 + n>> ELSE Append(FormatInt(n \div 10), 48 + (n % 10))

\* %02d of a non-negative integer
FormatInt02(n) == IF n < 10 THEN <<48, 48 + n>> ELSE FormatInt(n)

\* strings.ToLower and strings.ReplaceAll(str, " ", "-") on ASCII bytes
ToLower(str) == [i \in 1..Len(str) |-> Lower(str[i])]
ReplaceSpaces(str) == [i \in 1..Len(str) |-> IF str[i] = 32 THEN 45 ELSE str[i]]

\* "invoice-%s-%d-%02d"
OutputFilename(i) ==
  <<105, 110, 118, 111, 105, 99, 101, 45>> \o ToLower(ReplaceSpaces(i.Customer))
    \o <<45>> \o FormatInt(i.Year) \o <<45>> \o FormatInt02(i.Month)

\* filepath.Join(dir, name + ".html") and filepath.Join(dir, name + ".pdf")
InvoiceFilePath(i, dir) ==
  [dir |-> dir, file |-> OutputFilename(i) \o <<46, 104, 116, 109, 108>>]
PDFFilePath(i, dir) ==
  [dir |-> dir, file |-> OutputFilename(i) \o <<46, 112, 100, 102>>]

\* A line of the output of opencode, by how encoding/json decodes it:
\*   json  "empty" (the line is ""), "invalid" (json.Unmarshal into
\*         opencodeEvent fails: not JSON, not an object, "type" not a
\*         string) or "event"
\*   type  the "type" of the event
\*   part  "absent" (no "part"), "invalid" (json.Unmarshal of the part into
\*         toolPart fails) or "object"
\*   tool, status  the "tool" and "state.status" of the part
\*   input "absent" (no "state.input"), "invalid" (json.Unmarshal into
\*         writeInput fails) or "object"
\*   path  the "filePath" of the input, NoPath when there is none
Line(json, type, part, tool, status, input, path) ==
  [json |-> json, type |-> type, part |-> part, tool |-> tool,
   status |-> status, input |-> input, path |-> path]
EmptyLine == Line("empty", "", "absent", "", "", "absent", NoPath)
GarbageLine == Line("invalid", "", "absent", "", "", "absent", NoPath)
WriteEvent(status, path) ==
  Line("event", "tool_use", "object", "write", status, "object", path)

\* the scan stops at a line that cannot be decoded
ScanLinesStopAtInvalid(lines, path) ==
  \E i \in 1..Len(lines) :
    /\ lines[i] = WriteEvent("completed", path)
    /\ \A j \in 1..(i - 1) : lines[j].json # "invalid"

RECURSIVE ScanLines(_, _)
\* the loop of CheckOpencodeOutput: TRUE when it returns nil from inside
ScanLines(lines, path) ==
  IF lines = << >> THEN FALSE
  ELSE LET l == Head(lines)
       IN  IF l.json = "empty" THEN ScanLines(Tail(lines), path)
           ELSE IF l.json = "invalid" THEN ScanLines(Tail(lines), path)
           ELSE IF l.type # "tool_use" THEN ScanLines(Tail(lines), path)
           ELSE IF l.part # "object" THEN ScanLines(Tail(lines), path)
           ELSE IF l.tool # "write" THEN ScanLines(Tail(lines), path)
           ELSE IF l.input # "object" THEN ScanLines(Tail(lines), path)
           ELSE IF l.path = path /\ l.status = "completed" THEN TRUE
           ELSE ScanLines(Tail(lines), path)

RECURSIVE TrimLeft(_)
TrimLeft(lines) ==
  IF lines # << >> /\ Head(lines) = EmptyLine THEN TrimLeft(Tail(lines))
  ELSE lines
RECURSIVE TrimRight(_)
TrimRight(lines) ==
  IF lines # << >> /\ lines[Len(lines)] = EmptyLine
    THEN TrimRight(SubSeq(lines, 1, Len(lines) - 1))
  ELSE lines

\* strings.Split(strings.TrimSpace(string(out)), "\n"): the empty lines at
\* both ends are dropped, and splitting what is left of an empty output
\* gives one empty line
SplitLines(o) ==
  LET t == TrimRight(TrimLeft(o)) IN IF t = << >> THEN <<EmptyLine>> ELSE t

\* a completed write to any path confirms and the disk is not consulted
CheckOpencodeOutputAnyWrite(o, path, fs) ==
  IF \E i \in 1..Len(o) : \E p \in {o[i].path} : ScanLines(<<o[i]>>, p)
    THEN "nil"
  ELSE "opencode did not write the HTML invoice"

\* CheckOpencodeOutput(out, expectedPath), fs the paths at which os.Stat
\* succeeds
CheckOpencodeOutput(o, path, fs) ==
  IF ScanLines(SplitLines(o), path) THEN "nil"
  ELSE IF path \in fs THEN "nil"
  ELSE "opencode did not write the HTML invoice"

\* the working directory and the temporary directory
WorkDir == "/work"
TempDir == "/tmp"

\* an invoice for Client Co, June 2024, and its HTML path in both directories
SampleInvoice ==
  [ZeroInvoice EXCEPT !.Month = 6, !.Year = 2024, !.Vendor = "Acme",
                      !.Customer = ClientCo, !.Rate = 100]
HtmlPath == InvoiceFilePath(SampleInvoice, WorkDir)
OtherPath == InvoiceFilePath(SampleInvoice, TempDir)

\* an output has at most MaxLines lines
MaxLines == 3

\* the lines of an output: empty, undecodable, an event that is not a
\* tool_use, tool_use events without a part or with an undecodable one, write
\* events (completed on either path or on none, failed on the path), a
\* completed event of another tool, write events without an input or with
\* an undecodable one
Lines ==
  {EmptyLine, GarbageLine,
   Line("event", "text", "object", "write", "completed", "object", HtmlPath),
   Line("event", "tool_use", "absent", "", "", "absent", NoPath),
   Line("event", "tool_use", "invalid", "", "", "absent", NoPath),
   WriteEvent("completed", HtmlPath), WriteEvent("completed", OtherPath),
   WriteEvent("completed", NoPath), WriteEvent("error", HtmlPath),
   Line("event", "tool_use", "object", "bash", "completed", "object", HtmlPath),
   Line("event", "tool_use", "object", "write", "completed", "absent", NoPath),
   Line("event", "tool_use", "object", "write", "completed", "invalid", NoPath)}

Outputs == UNION {[1..n -> Lines] : n \in 0..MaxLines}

\* opencode has returned some output; some of the two files exist
InitCheck ==
  /\ out \in Outputs
  /\ expectedPath \in {HtmlPath, OtherPath}
  /\ files \in SUBSET {HtmlPath, OtherPath}
  /\ checked = "none" /\ wrote = FALSE
  /\ gpc = "call"
  /\ WeeksIdle /\ ParseIdle /\ ResolveIdle /\ TotalIdle /\ ConfigIdle
  /\ OptionsIdle /\ RunIdle /\ ConvertIdle

CallCheckOpencodeOutput ==
  /\ gpc = "call"
  /\ checked' = CheckOpencodeOutput(out, expectedPath, files)
  /\ gpc' = "done"
  /\ UNCHANGED <<out, expectedPath, files, wrote, wvars, pvars, rvars, tvars, cvars,
                 ovars, uvars,
                 kvars>>

NextCheck == CallCheckOpencodeOutput

SpecCheck == InitCheck /\ [][NextCheck]_vars

\* a well-formed tool_use event of the write tool, completed, whose input
\* file path is exactly p
Confirms(l, p) ==
  /\ l.json = "event" /\ l.type = "tool_use" /\ l.part = "object"
  /\ l.tool = "write" /\ l.status = "completed"
  /\ l.input = "object" /\ l.path = p

\* C19: CheckOpencodeOutput(out, path) succeeds if and only if some line of
\* out is a well-formed event with type tool_use, tool write, status
\* completed and input file path exactly path, or no such line exists and a
\* file exists at path; otherwise it returns the generation-incomplete
\* error, so an event with another tool, another path or another status
\* never confirms.
C19_ConfirmedByEventOrFile ==
  gpc = "done" =>
    LET confirmed == \E i \in 1..Len(out) : Confirms(out[i], expectedPath)
    IN  /\ checked = "nil" <=> (confirmed \/ expectedPath \in files)
        /\ (~confirmed /\ expectedPath \notin files
              => checked = "opencode did not write the HTML invoice")

\* a completed write to another path, a failed write to the path and a
\* completed event of another tool, with no file at the path
C19_Witness ==
  /\ gpc = "done" /\ expectedPath = HtmlPath /\ files = {OtherPath}
  /\ out = <<WriteEvent("completed", OtherPath), WriteEvent("error", HtmlPath),
             Line("event", "tool_use", "object", "bash", "completed", "object",
                  HtmlPath)>>
  /\ checked = "opencode did not write the HTML invoice"

\* an empty or malformed line: the line, the part or the input is not decoded
Malformed(l) ==
  l.json \in {"empty", "invalid"} \/ l.part = "invalid" \/ l.input = "invalid"

\* C20: the result of CheckOpencodeOutput is unchanged by inserting empty or
\* malformed lines anywhere: it is the result on the output without its
\* empty and malformed lines, and a confirming line is reached whatever
\* malformed lines precede it.
C20_MalformedLinesSkipped ==
  gpc = "done" =>
    /\ checked = CheckOpencodeOutput(SelectSeq(out, LAMBDA l : ~Malformed(l)),
                                     expectedPath, files)
    /\ \A i \in 1..Len(out) :
         (Confirms(out[i], expectedPath)
            /\ \A j \in 1..(i - 1) : Malformed(out[j])) => checked = "nil"

\* an undecodable line and an event with an undecodable part before the
\* confirming line, and no file at the path
C20_Witness ==
  /\ gpc = "done" /\ expectedPath = HtmlPath /\ files = {}
  /\ out = <<GarbageLine,
             Line("event", "tool_use", "invalid", "", "", "absent", NoPath),
             WriteEvent("completed", HtmlPath)>>
  /\ checked = "nil"

\* ------------------------------------------------------------------------
\* GenerateHTML, ConvertToPDF and CLI.Run
\* ------------------------------------------------------------------------
\* the result of CheckOpencodeOutput is dropped
GenerateHTMLUnchecked(g, path, fs) ==
  LET written == IF g.wrote THEN fs \cup {path} ELSE fs
  IN  [files |-> written,
       checked |-> IF g.execErr THEN "none"
                   ELSE CheckOpencodeOutput(g.out, path, written),
       err |-> IF g.execErr THEN "running opencode" ELSE "nil"]

\* GenerateHTML(inv, model, path) when the opencode subprocess behaves as g:
\* it fails or returns the output g.out, and it has or has not written the
\* file at path; fs are the files on disk before the call
GenerateHTML(g, path, fs) ==
  LET written == IF g.wrote THEN fs \cup {path} ELSE fs
  IN  [files |-> written,
       checked |-> IF g.execErr THEN "none"
                   ELSE CheckOpencodeOutput(g.out, path, written),
       err |-> IF g.execErr THEN "running opencode"
               ELSE CheckOpencodeOutput(g.out, path, written)]

\* the renderers ConvertToPDF looks for, in order
Renderers ==
  <<"wkhtmltopdf", "chromium", "chromium-browser", "google-chrome",
    "google-chrome-stable">>

RECURSIVE FirstAvailableFromEnd(_, _)
\* the last renderer of the list that is installed is preferred
FirstAvailableFromEnd(available, i) ==
  IF i > Len(Renderers) THEN 0
  ELSE LET rest == FirstAvailableFromEnd(available, i + 1)
       IN  IF rest # 0 THEN rest
           ELSE IF Renderers[i] \in available THEN i
           ELSE 0

RECURSIVE FirstAvailable(_, _)
\* index of the first renderer at or after i that exec.LookPath finds, 0
\* when there is none
FirstAvailable(available, i) ==
  IF i > Len(Renderers) THEN 0
  ELSE IF Renderers[i] \in available THEN i
  ELSE FirstAvailable(available, i + 1)

\* ConvertToPDF(htmlPath, pdfPath) when the renderers in available are
\* installed and the one that is run succeeds or not (runOk): the renderers
\* it ran and the error it returned
ConvertToPDF(available, runOk) ==
  LET i == FirstAvailable(available, 1)
  IN  IF i = 0 THEN [probed |-> Renderers, invoked |-> << >>,
                     err |-> "no PDF conversion tool found"]
      ELSE [probed |-> SubSeq(Renderers, 1, i), invoked |-> <<Renderers[i]>>,
            err |-> IF runOk THEN "nil" ELSE Renderers[i]]

\* the hours check is missing
ValidateWithoutHours(o) ==
  IF o.Vendor = "" THEN "vendor is required"
  ELSE IF o.Customer = << >> THEN "customer is required"
  ELSE IF o.Rate = 0 THEN "rate is required"
  ELSE "nil"

\* the validation of the required options in Run: the error of the first
\* missing one
Validate(o) ==
  IF o.Vendor = "" THEN "vendor is required"
  ELSE IF o.Customer = << >> THEN "customer is required"
  ELSE IF o.Rate = 0 THEN "rate is required"
  ELSE IF o.Hours = 0 THEN "hours is required"
  ELSE "nil"

\* the command lines of a run
RunArgLines ==
  [month : {<< >>, <<June>>, <<Foo>>}, year : {<< >>, <<2024>>},
   vendor : {<< >>, <<"Acme">>}, customer : {<< >>, <<ClientCo>>},
   rate : {<< >>, <<100>>}, hours : {<< >>, <<40>>},
   pdf : {<< >>, <<TRUE>>, <<FALSE>>}, model : {<< >>}]

\* the configuration files of a run: none, a malformed one, a record with
\* negative numbers, a complete record and one with a vendor and a rate only
RunConfigFiles ==
  {AbsentFile, [kind |-> "malformed", data |-> EmptyDoc],
   [kind |-> "yaml",
    data |-> Marshal([Vendor |-> "Globex", Customer |-> Beta, Rate |-> -150,
                      Hours |-> -20, PDF |-> << >>, Model |-> ""])],
   [kind |-> "yaml",
    data |-> Marshal([Vendor |-> "Globex", Customer |-> Beta, Rate |-> 150,
                      Hours |-> 20, PDF |-> <<TRUE>>, Model |-> SonnetModel])],
   [kind |-> "yaml",
    data |-> Marshal([ZeroConfig EXCEPT !.Vendor = "Globex", !.Rate = 150])]}

\* the instants invoice.Now() returns in a run
RunInstants == {Date(2024, 7, 15, 1), Date(2024, 3, 31, 0)}

\* the behaviours of the opencode subprocess asked to write path
GeneratorBehaviours(path) ==
  {[execErr |-> TRUE, out |-> << >>, wrote |-> FALSE]}
  \cup [execErr : {FALSE},
        out : {<< >>, <<WriteEvent("completed", path)>>,
               <<GarbageLine, WriteEvent("error", path)>>},
        wrote : BOOLEAN]

\* the installed renderers and the fate of the one that is run
Conversions ==
  [available : {{}, {"wkhtmltopdf", "chromium"},
                {"chromium-browser", "google-chrome-stable"}},
   runOk : BOOLEAN]

\* no subprocess is started
NoGeneration == [execErr |-> FALSE, out |-> << >>, wrote |-> FALSE]
NoConversion == [available |-> {}, runOk |-> FALSE]

\* the argument parser has filled the CLI struct and Run is about to start;
\* the HTML file of an earlier run may be there
InitRun ==
  /\ args \in RunArgLines
  /\ cli = ParseArgs(args)
  /\ opts = [opts |-> ZeroOptions, err |-> "none"]
  /\ opc = "idle"
  /\ cfgFile \in RunConfigFiles
  /\ cfgDir = (cfgFile.kind # "absent")
  /\ updates = ZeroConfig /\ before = cfgFile /\ saveErr = "none"
  /\ loaded = [cfg |-> ZeroConfig, err |-> "none"]
  /\ cpc = "idle"
  /\ monthStr = << >> /\ yearArg = 0
  /\ now \in RunInstants
  /\ resolved = [month |-> 0, year |-> 0, err |-> "nil"]
  /\ rpc = "idle"
  /\ out = << >> /\ expectedPath = NoPath /\ checked = "none"
  /\ wrote = FALSE /\ gpc = "idle"
  /\ files \in SUBSET {HtmlPath}
  /\ trace = << >> /\ runErr = "none" /\ upc = "call"
  /\ WeeksIdle /\ ParseIdle /\ TotalIdle /\ ConvertIdle

\* CLI.Run from its first statement to its return
CallRun ==
  /\ upc = "call"
  /\ \E homeOk \in BOOLEAN : opts' = resolveOptions(cli, cfgFile, homeOk)
  /\ LET valid == opts'.err = "nil" /\ Validate(opts'.opts) = "nil"
     IN  /\ monthStr' = IF valid THEN opts'.opts.Month ELSE monthStr
         /\ yearArg' = IF valid THEN opts'.opts.Year ELSE yearArg
         /\ resolved' = IF valid THEN ResolveMonthYear(monthStr', yearArg', now)
                        ELSE resolved
         /\ LET built == valid /\ resolved'.err = "nil"
            IN  /\ inv' = IF built
                            THEN [Month |-> resolved'.month,
                                  Year |-> resolved'.year,
                                  Vendor |-> opts'.opts.Vendor,
                                  Customer |-> opts'.opts.Customer,
                                  Rate |-> opts'.opts.Rate,
                                  Weeks |-> WeeksForMonth(resolved'.year,
                                              resolved'.month, opts'.opts.Hours)]
                            ELSE inv
                /\ \E dir \in IF built THEN {WorkDir, TempDir} ELSE {WorkDir} :
                     expectedPath' = IF built THEN InvoiceFilePath(inv', dir)
                                     ELSE expectedPath
                /\ \E g \in IF built THEN GeneratorBehaviours(expectedPath')
                            ELSE {NoGeneration} :
                     LET gen == GenerateHTML(g, expectedPath', files)
                         convert == built /\ gen.err = "nil" /\ opts'.opts.PDF
                     IN  /\ out' = g.out
                         /\ wrote' = g.wrote
                         /\ checked' = IF built THEN gen.checked ELSE checked
                         /\ \E c \in IF convert THEN Conversions
                                     ELSE {NoConversion} :
                              LET pdf == ConvertToPDF(c.available, c.runOk)
                              IN  /\ installed' = IF convert THEN c.available
                                                   ELSE installed
                                  /\ runsOk' = IF convert THEN c.runOk ELSE runsOk
                                  /\ converted' = IF convert THEN pdf ELSE converted
                                  /\ files' =
                                       IF convert /\ pdf.err = "nil"
                                         THEN gen.files \cup
                                                {PDFFilePath(inv', expectedPath'.dir)}
                                         ELSE gen.files
                                  /\ trace' =
                                       (IF valid THEN <<"ResolveMonthYear">>
                                        ELSE << >>)
                                       \o (IF built
                                             THEN <<"WeeksForMonth", "OpencodeExec">>
                                             ELSE << >>)
                                       \o (IF built /\ ~g.execErr
                                             THEN <<"CheckOpencodeOutput">>
                                             ELSE << >>)
                                       \o (IF convert
                                             THEN <<"ConvertToPDF">> \o pdf.invoked
                                             ELSE << >>)
                                  /\ runErr' =
                                       IF opts'.err # "nil" THEN opts'.err
                                       ELSE IF ~valid THEN Validate(opts'.opts)
                                       ELSE IF ~built THEN "resolving month/year"
                                       ELSE IF gen.err # "nil"
                                         THEN "generating HTML invoice"
                                       ELSE IF convert /\ pdf.err # "nil"
                                         THEN "converting to PDF"
                                       ELSE "nil"
  /\ upc' = "done"
  /\ UNCHANGED <<now, rpc, args, cli, opc, gpc, total, tpc, vpc, wvars, pvars,
                 cvars>>

NextRun == CallRun

SpecRun == InitRun /\ [][NextRun]_vars

\* a required option is missing after the merge
MissingOptions ==
  {"vendor" : x \in {o \in {opts.opts} : o.Vendor = ""}}
  \cup {"customer" : x \in {o \in {opts.opts} : o.Customer = << >>}}
  \cup {"rate" : x \in {o \in {opts.opts} : o.Rate = 0}}
  \cup {"hours" : x \in {o \in {opts.opts} : o.Hours = 0}}

\* the option a validation error names
NamedOption ==
  IF runErr = "vendor is required" THEN "vendor"
  ELSE IF runErr = "customer is required" THEN "customer"
  ELSE IF runErr = "rate is required" THEN "rate"
  ELSE IF runErr = "hours is required" THEN "hours"
  ELSE "none"

\* C17: if after the merge of the command line and the configuration the
\* vendor or the customer is empty or the rate or the hours are zero, Run
\* returns an error that names a missing option, and that run resolves no
\* month, invokes no generator, creates no file and converts no PDF.
C17_MissingOptionStopsRun ==
  /\ [](upc = "done" /\ opts.err = "nil" /\ MissingOptions # {}
          => /\ NamedOption \in MissingOptions
             /\ trace = << >>
             /\ resolved = [month |-> 0, year |-> 0, err |-> "nil"]
             /\ out = << >> /\ checked = "none")
  /\ [][upc' = "done" /\ runErr' \in {"vendor is required",
          "customer is required", "rate is required", "hours is required"}
          => files' = files]_vars

\* --vendor and --customer on a configuration file that is not there: the
\* rate is the first missing option
C17_Witness ==
  /\ upc = "done" /\ opts.err = "nil"
  /\ cfgFile = AbsentFile
  /\ opts.opts.Vendor = "Acme" /\ opts.opts.Customer = ClientCo
  /\ MissingOptions = {"rate", "hours"}
  /\ runErr = "rate is required"
  /\ trace = << >> /\ files = {}

\* the positions of call c in the trace of a run
Calls(c) == {i \in 1..Len(trace) : trace[i] = c}

\* the run passed the validation and the month resolution
RunBuiltInvoice ==
  /\ upc = "done" /\ opts.err = "nil" /\ MissingOptions = {}
  /\ resolved.err = "nil"

\* C21: in every run that passes validation and month resolution the
\* generator is invoked exactly once; the PDF conversion is invoked at most
\* once, only when the resolved PDF toggle is true and only after the
\* generator returned and its output was verified; when the generator fails
\* or its output is not confirmed the run ends with an error, without retry
\* and without conversion.
C21_OneGenerationThenConversion ==
  RunBuiltInvoice =>
    /\ Cardinality(Calls("OpencodeExec")) = 1
    /\ Cardinality(Calls("ConvertToPDF")) <= 1
    /\ \A r \in 1..Len(Renderers) :
         Cardinality(Calls(Renderers[r])) <= Cardinality(Calls("ConvertToPDF"))
    /\ (Calls("ConvertToPDF") # {} =>
          /\ opts.opts.PDF
          /\ checked = "nil"
          /\ \A i \in Calls("ConvertToPDF") :
               \E j \in Calls("OpencodeExec"), k \in Calls("CheckOpencodeOutput") :
                 j < k /\ k < i)
    /\ (checked # "nil" =>
          /\ runErr = "generating HTML invoice"
          /\ Calls("ConvertToPDF") = {}
          /\ \A r \in 1..Len(Renderers) : Calls(Renderers[r]) = {})
    /\ (checked = "nil" /\ opts.opts.PDF => Cardinality(Calls("ConvertToPDF")) = 1)

\* --pdf, a confirmed generation, wkhtmltopdf installed and successful
C21_Witness ==
  /\ RunBuiltInvoice /\ opts.opts.PDF /\ runErr = "nil"
  /\ trace = <<"ResolveMonthYear", "WeeksForMonth", "OpencodeExec",
               "CheckOpencodeOutput", "ConvertToPDF", "wkhtmltopdf">>
  /\ PDFFilePath(inv, expectedPath.dir) \in files

\* ------------------------------------------------------------------------
\* ConvertToPDF on its own
\* ------------------------------------------------------------------------
SamplePdfPath == PDFFilePath(SampleInvoice, WorkDir)

\* the HTML invoice is there, any of the renderers may be installed and the
\* one that is run may fail
InitConvert ==
  /\ installed \in SUBSET {Renderers[i] : i \in 1..Len(Renderers)}
  /\ runsOk \in BOOLEAN
  /\ converted = [probed |-> << >>, invoked |-> << >>, err |-> "none"]
  /\ vpc = "call"
  /\ out = << >> /\ expectedPath = HtmlPath /\ files = {HtmlPath}
  /\ checked = "none" /\ wrote = FALSE /\ gpc = "idle"
  /\ WeeksIdle /\ ParseIdle /\ ResolveIdle /\ TotalIdle /\ ConfigIdle
  /\ OptionsIdle /\ RunIdle

\* ConvertToPDF(htmlPath, pdfPath): a renderer that succeeds writes the PDF
CallConvertToPDF ==
  /\ vpc = "call"
  /\ converted' = ConvertToPDF(installed, runsOk)
  /\ files' = IF converted'.err = "nil" THEN files \cup {SamplePdfPath}
              ELSE files
  /\ vpc' = "done"
  /\ UNCHANGED <<installed, runsOk, out, expectedPath, checked, wrote, gpc, wvars,
                 pvars, rvars, tvars, cvars, ovars, uvars>>

NextConvert == CallConvertToPDF

SpecConvert == InitConvert /\ [][NextConvert]_vars

\* the positions in the preference order of the installed renderers
InstalledPositions ==
  {i \in 1..5 :
     <<"wkhtmltopdf", "chromium", "chromium-browser", "google-chrome",
       "google-chrome-stable">>[i] \in installed}

\* C22: ConvertToPDF probes the renderers in the order wkhtmltopdf,
\* chromium, chromium-browser, google-chrome, google-chrome-stable and
\* invokes exactly the first one that is available and no other: when that
\* one fails its error is returned and no later renderer is tried, and when
\* none is available the no-renderer error is returned and nothing is
\* invoked.
C22_FirstAvailableRenderer ==
  vpc = "done" =>
    LET order == <<"wkhtmltopdf", "chromium", "chromium-browser",
                   "google-chrome", "google-chrome-stable">>
    IN  IF InstalledPositions = {}
          THEN /\ converted.probed = order
               /\ converted.invoked = << >>
               /\ converted.err = "no PDF conversion tool found"
               /\ files = {HtmlPath}
          ELSE LET f == CHOOSE i \in InstalledPositions :
                          \A j \in InstalledPositions : i <= j
               IN  /\ converted.probed = SubSeq(order, 1, f)
                   /\ converted.invoked = <<order[f]>>
                   /\ (runsOk => converted.err = "nil")
                   /\ (~runsOk => converted.err = order[f] /\ files = {HtmlPath})

\* chromium-browser and google-chrome-stable are installed and
\* chromium-browser fails
C22_Witness ==
  /\ vpc = "done"
  /\ installed = {"chromium-browser", "google-chrome-stable"} /\ ~runsOk
  /\ converted.probed = <<"wkhtmltopdf", "chromium", "chromium-browser">>
  /\ converted.invoked = <<"chromium-browser">>
  /\ converted.err = "chromium-browser"

\* C23: whenever Run reaches WeeksForMonth and the construction of the
\* Invoice, the resolved vendor and customer are non-empty and the resolved
\* rate and hours per week are strictly positive.
C23_PositiveBeforePartition ==
  upc = "done" /\ Calls("WeeksForMonth") # {} =>
    /\ opts.opts.Vendor # "" /\ opts.opts.Customer # << >>
    /\ opts.opts.Rate > 0 /\ opts.opts.Hours > 0

\* ------------------------------------------------------------------------
\* GenerateHTML on its own
\* ------------------------------------------------------------------------
\* every behaviour of the opencode subprocess: it exits with or without an
\* error, prints any output and writes the file or not
AllGeneratorBehaviours ==
  [execErr : {TRUE}, out : {<< >>}, wrote : BOOLEAN]
  \cup [execErr : {FALSE}, out : Outputs, wrote : BOOLEAN]

\* a caller is about to generate the invoice at one of the two paths; files
\* of earlier runs may be there
InitGenerate ==
  /\ out = << >>
  /\ expectedPath \in {HtmlPath, OtherPath}
  /\ files \in SUBSET {HtmlPath, OtherPath}
  /\ checked = "none" /\ wrote = FALSE
  /\ gpc = "generate"
  /\ WeeksIdle /\ ParseIdle /\ ResolveIdle /\ TotalIdle /\ ConfigIdle
  /\ OptionsIdle /\ RunIdle /\ ConvertIdle

\* GenerateHTML(inv, model, expectedPath); checked is the error it returns
CallGenerateHTML ==
  /\ gpc = "generate"
  /\ \E g \in AllGeneratorBehaviours :
       LET gen == GenerateHTML(g, expectedPath, files)
       IN  /\ out' = g.out
           /\ wrote' = g.wrote
           /\ files' = gen.files
           /\ checked' = gen.err
  /\ gpc' = "generated"
  /\ UNCHANGED <<expectedPath, wvars, pvars, rvars, tvars, cvars, ovars, uvars,
                 kvars>>

NextGenerate == CallGenerateHTML

SpecGenerate == InitGenerate /\ [][NextGenerate]_vars

\* C24: whenever GenerateHTML returns without error, a file exists at
\* outputPath, whatever the external generator did.
C24_SuccessMeansFileExists ==
  gpc = "generated" /\ checked = "nil" => expectedPath \in files

\* C29: GenerateHTML returns success only if the generator wrote the target
\* file during this invocation: when a file already exists at outputPath
\* before the call, the generator emits no confirming write event and
\* writes nothing, GenerateHTML does not return success but the
\* generation-incomplete error (or the error of the subprocess).
C29_StaleFileNotAccepted ==
  [][(/\ gpc' = "generated"
      /\ expectedPath \in files
      /\ ~wrote'
      /\ \A i \in 1..Len(out') : ~Confirms(out'[i], expectedPath))
       => checked' \in {"opencode did not write the HTML invoice",
                        "running opencode"}]_vars

\* ------------------------------------------------------------------------
\* The configuration file under set config and the invoice command
\* ------------------------------------------------------------------------
\* the command lines of the invoice command here: no option, or the four
\* required ones
StoreArgLines ==
  {NoArgs,
   [NoArgs EXCEPT !.vendor = <<"Acme">>, !.customer = <<ClientCo>>,
                  !.rate = <<100>>, !.hours = <<40>>]}

\* a set config and an invoice command are about to run on some stored file
InitStore ==
  /\ cfgFile \in StoredFiles
  /\ cfgDir \in {d \in BOOLEAN : cfgFile.kind # "absent" => d}
  /\ updates \in Updates
  /\ before = cfgFile
  /\ saveErr = "none"
  /\ loaded = [cfg |-> ZeroConfig, err |-> "none"]
  /\ cpc = "call"
  /\ args \in StoreArgLines
  /\ cli = ParseArgs(args)
  /\ opts = [opts |-> ZeroOptions, err |-> "none"]
  /\ opc = "idle"
  /\ monthStr = << >> /\ yearArg = 0
  /\ now = Date(2024, 7, 15, 1)
  /\ resolved = [month |-> 0, year |-> 0, err |-> "nil"]
  /\ rpc = "idle"
  /\ out = << >> /\ expectedPath = NoPath /\ checked = "none"
  /\ wrote = FALSE /\ gpc = "idle"
  /\ files = {}
  /\ trace = << >> /\ runErr = "none" /\ upc = "call"
  /\ WeeksIdle /\ ParseIdle /\ TotalIdle /\ ConvertIdle

NextStore == CallSave \/ CallLoad \/ CallRun

SpecStore == InitStore /\ [][NextStore]_vars

\* the file exists and cannot be read or cannot be parsed
Unusable(f) == f.kind \in {"unreadable", "malformed"}

\* C25: when the stored configuration file exists but is malformed or
\* unreadable, Load returns an error, Save returns that error and leaves the
\* file as it is, and resolveOptions returns an error so that no invoice is
\* generated; when the file does not exist Load returns an empty record
\* without error.
C25_UnusableConfigIsAnError ==
  /\ [][cpc = "saved" /\ cpc' = "loaded" =>
          /\ (Unusable(cfgFile) =>
                loaded'.err \in {"reading config file", "parsing config file"})
          /\ (cfgFile.kind = "absent" =>
                loaded' = [cfg |-> ZeroConfig, err |-> "nil"])]_vars
  /\ [][cpc = "call" /\ cpc' = "saved" /\ Unusable(cfgFile) =>
          /\ saveErr' \in {"reading config file", "parsing config file"}
          /\ cfgFile' = cfgFile /\ cfgDir' = cfgDir]_vars
  /\ [][upc = "call" /\ upc' = "done" /\ Unusable(cfgFile) =>
          /\ opts'.err \in {"loading config", "determining config path"}
          /\ runErr' = opts'.err
          /\ trace' = << >> /\ files' = files /\ out' = << >>]_vars

\* a set config and an invoice command, both with all options, on a
\* malformed file: both fail and the file is as before
C25_Witness ==
  /\ cpc = "loaded" /\ upc = "done"
  /\ before.kind = "malformed" /\ cfgFile = before
  /\ Cardinality(Provided(updates)) = 6
  /\ saveErr = "parsing config file" /\ loaded.err = "parsing config file"
  /\ args.vendor = <<"Acme">>
  /\ runErr = "loading config" /\ trace = << >>

\* ------------------------------------------------------------------------
\* Further properties of the week partitioner
\* ------------------------------------------------------------------------
\* the Monday-Friday days of week w
BilledDays(w) == WorkdaysOf(DaysBetween(w.Start, w.End))

\* C26: every week returned by WeeksForMonth contains its Wednesday inside
\* the clamped range and has between 3 and 5 workdays, so for hoursPerWeek
\* h > 0 its Hours is one of 3h/5, 4h/5 or h and never zero; no clamped
\* range is made of weekend days only.
C26_ThreeToFiveWorkdays ==
  wpc = "done" =>
    \A i \in 1..Len(weeks) :
      LET wed == NaturalWednesday(weeks[i].Start)
          n == Cardinality(BilledDays(weeks[i]))
      IN  /\ weeks[i].Start <= wed /\ wed <= weeks[i].End
          /\ wed \in MonthDays(year, month)
          /\ n \in 3..5
          /\ (hoursPerWeek > 0 =>
                /\ 5 * weeks[i].Hours \in {3 * hoursPerWeek, 4 * hoursPerWeek,
                                           5 * hoursPerWeek}
                /\ weeks[i].Hours # 0)

\* April 2025 ends on a Wednesday: its last week is Mon Apr 28 - Wed Apr 30,
\* 3 workdays, and its first week Tue Apr 1 - Sun Apr 6 has 4
C26_Witness ==
  /\ wpc = "done" /\ year = 2025 /\ month = 4 /\ hoursPerWeek = 40
  /\ Len(weeks) = 5
  /\ weeks[1].Hours = 32
  /\ weeks[5].Start = Date(2025, 4, 28, 0) /\ weeks[5].End = Date(2025, 4, 30, 0)
  /\ weeks[5].Hours = 24

\* the days of the month that no returned week covers
UncoveredDays ==
  {d \in MonthDays(year, month) :
     \A i \in 1..Len(weeks) : d < weeks[i].Start \/ d > weeks[i].End}

\* the Monday-Friday days some returned week bills
AllBilledDays == UNION {BilledDays(weeks[i]) : i \in 1..Len(weeks)}

\* C27: the workdays billed by WeeksForMonth never exceed the Monday-Friday
\* days of the month and no day is billed twice; a day of the month that no
\* week covers lies before the first week's Start (at most 4 days) or after
\* the last week's End (at most 2 days), so the billed workdays fall short
\* of the month's workdays by at most 4.
C27_BilledWithinMonth ==
  wpc = "done" =>
    LET monthWorkdays == WorkdaysOf(MonthDays(year, month))
        early == {d \in UncoveredDays : d < weeks[1].Start}
        late == {d \in UncoveredDays : d > weeks[Len(weeks)].End}
    IN  /\ AllBilledDays \subseteq monthWorkdays
        /\ \A i, j \in 1..Len(weeks) :
             i # j => BilledDays(weeks[i]) \cap BilledDays(weeks[j]) = {}
        /\ 5 * SumHours(weeks) = hoursPerWeek * Cardinality(AllBilledDays)
        /\ UncoveredDays = early \cup late
        /\ Cardinality(early) <= 4 /\ Cardinality(late) <= 2
        /\ Cardinality(monthWorkdays) - Cardinality(AllBilledDays) \in 0..4

\* December 2024 starts on a Sunday and ends on a Tuesday: Dec 1, Dec 30 and
\* Dec 31 are in no week and two workdays are not billed
C27_Witness ==
  /\ wpc = "done" /\ year = 2024 /\ month = 12
  /\ UncoveredDays = {Date(2024, 12, 1, 0), Date(2024, 12, 30, 0),
                      Date(2024, 12, 31, 0)}
  /\ Cardinality(WorkdaysOf(MonthDays(year, month)))
       - Cardinality(AllBilledDays) = 2

\* ------------------------------------------------------------------------
\* Sequences of Save calls
\* ------------------------------------------------------------------------
\* a step that is a successful call of Save
SuccessfulSave == cpc = "call" /\ cpc' = "saved" /\ saveErr' = "nil"

\* C28: over any sequence of successful Save calls on one path a stored
\* field never goes back to unset: a non-empty vendor, customer or model
\* stays non-empty, a non-zero rate or hours stays non-zero and a pdf that
\* is set (true or false) stays set; pdf is the only field whose stored
\* value can change to a false/zero-like value.
C28_FieldsStaySet ==
  [][SuccessfulSave =>
       /\ (StoredValue(cfgFile, "vendor", "") # ""
             => StoredValue(cfgFile', "vendor", "") # "")
       /\ (StoredValue(cfgFile, "customer", << >>) # << >>
             => StoredValue(cfgFile', "customer", << >>) # << >>)
       /\ (StoredValue(cfgFile, "model", "") # ""
             => StoredValue(cfgFile', "model", "") # "")
       /\ (StoredValue(cfgFile, "rate", 0) # 0
             => StoredValue(cfgFile', "rate", 0) # 0)
       /\ (StoredValue(cfgFile, "hours", 0) # 0
             => StoredValue(cfgFile', "hours", 0) # 0)
       /\ (cfgFile.kind = "yaml" /\ cfgFile.data.pdf # << >>
             => cfgFile'.data.pdf # << >>)
       /\ cfgFile'.data.vendor # <<"">> /\ cfgFile'.data.model # <<"">>
       /\ cfgFile'.data.customer # <<<< >>>>
       /\ cfgFile'.data.rate # <<0>> /\ cfgFile'.data.hours # <<0>>]_vars

\* a record that an earlier Save wrote (vendor Globex) has pdf: true turned
\* into pdf: false by a later Save that leaves the vendor alone
C28_Witness ==
  /\ cpc = "saved" /\ saveErr = "nil"
  /\ before.kind = "yaml"
  /\ before.data.vendor = <<"Globex">> /\ before.data.customer = <<ClientCo>>
  /\ before.data.pdf = <<TRUE>>
  /\ updates = [ZeroConfig EXCEPT !.PDF = <<FALSE>>]
  /\ cfgFile.data.vendor = <<"Globex">> /\ cfgFile.data.pdf = <<FALSE>>

====
